---- MODULE Spec2Model ----
(***************************************************************************)
(* A model of advanced-vector/vector.h: Vector<T> on top of RawMemory<T>.  *)
(*                                                                         *)
(* The heap is a finite pool of blocks.  A block holds one cell per        *)
(* element slot; a cell is Raw (no object lives there), MovedFrom (a live  *)
(* object whose value was moved out) or the value of a live object.        *)
(* A Vector is the pair RawMemory{buffer_, capacity_} plus size_.          *)
(* Every member function is a function from machine states to machine      *)
(* states, written statement by statement after the source; an action      *)
(* applies one member function to the current state.  The history          *)
(* variable last records the call, the state before it and the log of      *)
(* allocator and object-lifetime events the call produced.                 *)
(***************************************************************************)
EXTENDS Integers, Sequences, FiniteSets, TLC

\* ------------------------------------------------------------------ bounds
MaxCap == 6        \* largest block handed out when one vector is in scope
MaxCapPair == 2    \* largest block handed out when two vectors are in scope
MaxCapScript == 4  \* largest block handed out in the scope of the scripted run
MaxBlocks == 3     \* number of block addresses in the pool
MaxVal == 1        \* element values are 1..MaxVal, plus Default
MaxFail == 3       \* the k-th copy construction of a call may fail, k <= MaxFail
MaxAllocFail == 2  \* the k-th allocation of a call may fail, k <= MaxAllocFail

\* ------------------------------------------------------------- cell values
Raw == -1          \* uninitialized storage, as returned by operator new
MovedFrom == -2    \* a live object left behind by std::move
Default == 0       \* the value of T()

Val == 1..MaxVal
ScriptVal == {1, 2, 3, 99}      \* the values of the scripted run
Names == {"a", "b"}
Objects == Names \cup {"tmp"}   \* "tmp" is the local new_vector of operator=
ElemTypes == {"nothrow_move", "throwing_move", "move_only"}

\* std::is_nothrow_move_constructible_v<T> and std::is_copy_constructible_v<T>
NothrowMoveConstructible(t) == t = "nothrow_move"
CopyConstructible(t) == t # "move_only"

VARIABLES
    mem,       \* the heap: block address -> [alloc, cells]
    vec,       \* the Vector objects: name -> [alive, buffer_, capacity_, size_]
    elemType,  \* the element type T, by the traits MoveElements asks about
    scope,     \* "single": the program uses vector a; "pair": a and b;
               \* "script": vector a, with the values of the scripted run
               \* "nofail": a and b, and nothing fails
    last,      \* history: the last call, the state before it, its event log
    prov,      \* history: how each vector was made and the appends since
    halted     \* the program was stopped by undefined behaviour
vars == <<mem, vec, elemType, scope, last, prov, halted>>

NullPtr == [b |-> 0, i |-> 0]
NoVector == [alive |-> FALSE, buffer_ |-> 0, capacity_ |-> 0, size_ |-> 0]
FreeBlock == [alloc |-> FALSE, cells |-> <<>>]

Ev(e, b, i, ok) == [e |-> e, b |-> b, i |-> i, ok |-> ok]

Min(S) == CHOOSE x \in S : \A y \in S : x <= y

\* The machine state a call starts from: the current heap and objects, an
\* empty event log, and the failures injected into this call
\* (failAt = k: the k-th copy construction throws; allocFailAt = k: the
\* k-th operator new throws; 0: none).
Start(failAt, allocFailAt) ==
    [mem |-> mem, vec |-> vec, relocByMove |-> (NothrowMoveConstructible(elemType) \/ ~CopyConstructible(elemType)),
     capLimit |-> (IF scope \in {"pair", "nofail"} THEN MaxCapPair
                   ELSE IF scope = "script" THEN MaxCapScript ELSE MaxCap),
     log |-> <<>>, threw |-> FALSE, exc |-> "none", ub |-> FALSE,
     abort |-> FALSE, over |-> FALSE,
     ncopy |-> 0, nalloc |-> 0, failAt |-> failAt, allocFailAt |-> allocFailAt,
     r |-> 0, ret |-> NullPtr]

\* ------------------------------------------------------ RawMemory, objects
FreeBlocks(s) == {b \in 1..MaxBlocks : ~s.mem[b].alloc}

ValidSlot(s, b, i) ==
    /\ b \in 1..MaxBlocks
    /\ s.mem[b].alloc
    /\ i >= 0
    /\ i < Len(s.mem[b].cells)

IsLive(s, b, i) == ValidSlot(s, b, i) /\ s.mem[b].cells[i + 1] # Raw

LiveCount(m, b) == Cardinality({j \in 1..Len(m[b].cells) : m[b].cells[j] # Raw})

\* RawMemory::Allocate; the result is left in s.r (0 is nullptr).
Allocate(s, n) ==
    IF n = 0 THEN [s EXCEPT !.r = 0]
    ELSE IF s.nalloc + 1 = s.allocFailAt
         THEN [s EXCEPT !.nalloc = @ + 1, !.threw = TRUE, !.exc = "bad_alloc", !.r = 0]
    ELSE IF n > s.capLimit \/ FreeBlocks(s) = {}
         THEN [s EXCEPT !.over = TRUE, !.r = 0]
    ELSE LET b == Min(FreeBlocks(s)) IN
         [s EXCEPT !.nalloc = @ + 1,
                   !.mem[b] = [alloc |-> TRUE, cells |-> [j \in 1..n |-> Raw]],
                   !.log = Append(@, Ev("alloc", b, n, TRUE)),
                   !.r = b]

\* RawMemory::Deallocate: operator delete; a no-op on nullptr.  The event
\* records how many objects were still alive in the block.
Deallocate(s, b) ==
    IF b = 0 THEN s
    ELSE IF b \in 1..MaxBlocks /\ s.mem[b].alloc
         THEN [s EXCEPT !.mem[b] = FreeBlock,
                        !.log = Append(@, Ev("dealloc", b, LiveCount(s.mem, b), TRUE))]
    ELSE [s EXCEPT !.ub = TRUE, !.log = Append(@, Ev("dealloc", b, 0, FALSE))]

\* Reading an object; reading storage that holds none gives Raw.
Load(s, b, i) == IF ValidSlot(s, b, i) THEN s.mem[b].cells[i + 1] ELSE Raw

\* Placement new at slot i of block b.  ok records that the slot held no
\* object before.
ConstructAt(s, b, i, val) ==
    IF ValidSlot(s, b, i)
    THEN [s EXCEPT !.mem[b].cells[i + 1] = IF val = Raw THEN MovedFrom ELSE val,
                   !.ub = @ \/ (val = Raw),
                   !.log = Append(@, Ev("construct", b, i, s.mem[b].cells[i + 1] = Raw))]
    ELSE [s EXCEPT !.ub = TRUE, !.log = Append(@, Ev("construct", b, i, FALSE))]

\* std::destroy_at.  ok records that the slot held an object.
DestroyAt(s, b, i) ==
    IF IsLive(s, b, i)
    THEN [s EXCEPT !.mem[b].cells[i + 1] = Raw,
                   !.log = Append(@, Ev("destroy", b, i, TRUE))]
    ELSE [s EXCEPT !.ub = TRUE, !.log = Append(@, Ev("destroy", b, i, FALSE))]

\* T::operator= on the object at slot i.
AssignAt(s, b, i, val) ==
    IF IsLive(s, b, i)
    THEN [s EXCEPT !.mem[b].cells[i + 1] = IF val = Raw THEN MovedFrom ELSE val,
                   !.ub = @ \/ (val = Raw),
                   !.log = Append(@, Ev("assign", b, i, TRUE))]
    ELSE [s EXCEPT !.ub = TRUE, !.log = Append(@, Ev("assign", b, i, FALSE))]

\* The source of a std::move: the object stays alive, its value is gone.
LeaveMovedFrom(s, b, i) ==
    IF IsLive(s, b, i) THEN [s EXCEPT !.mem[b].cells[i + 1] = MovedFrom] ELSE s

\* new (dst) T(std::move(src))
MoveConstruct(s, sb, si, db, di) ==
    LeaveMovedFrom(ConstructAt(s, db, di, Load(s, sb, si)), sb, si)

\* dst = std::move(src)
MoveAssignElem(s, sb, si, db, di) ==
    LeaveMovedFrom(AssignAt(s, db, di, Load(s, sb, si)), sb, si)

\* ------------------------------------------------------- <memory> algorithms
RECURSIVE DestroyN(_, _, _, _)
DestroyN(s, b, i, n) ==
    IF n = 0 THEN s ELSE DestroyN(DestroyAt(s, b, i), b, i + 1, n - 1)

\* std::uninitialized_copy_n: on a throwing copy constructor the copies
\* made so far are destroyed and the exception is rethrown.
RECURSIVE UninitCopyLoop(_, _, _, _, _, _, _)
UninitCopyLoop(s, sb, si, db, di, j, n) ==
    IF j = n THEN s
    ELSE IF s.ncopy + 1 = s.failAt
         THEN [DestroyN([s EXCEPT !.ncopy = @ + 1], db, di, j)
                 EXCEPT !.threw = TRUE, !.exc = "copy"]
    ELSE UninitCopyLoop(ConstructAt([s EXCEPT !.ncopy = @ + 1], db, di + j, Load(s, sb, si + j)),
                        sb, si, db, di, j + 1, n)

UninitializedCopyN(s, sb, si, n, db, di) == UninitCopyLoop(s, sb, si, db, di, 0, n)

\* std::uninitialized_move_n
RECURSIVE UninitMoveLoop(_, _, _, _, _, _, _)
UninitMoveLoop(s, sb, si, db, di, j, n) ==
    IF j = n THEN s
    ELSE UninitMoveLoop(MoveConstruct(s, sb, si + j, db, di + j), sb, si, db, di, j + 1, n)

UninitializedMoveN(s, sb, si, n, db, di) == UninitMoveLoop(s, sb, si, db, di, 0, n)

\* std::uninitialized_value_construct_n
RECURSIVE UninitializedValueConstructN(_, _, _, _)
UninitializedValueConstructN(s, b, i, n) ==
    IF n = 0 THEN s
    ELSE UninitializedValueConstructN(ConstructAt(s, b, i, Default), b, i + 1, n - 1)

\* std::move_backward(first, last, d_last) inside block b
RECURSIVE MoveBackward(_, _, _, _, _)
MoveBackward(s, b, first, lst, dlast) ==
    IF first = lst THEN s
    ELSE IF first > lst THEN [s EXCEPT !.ub = TRUE]
    ELSE MoveBackward(MoveAssignElem(s, b, lst - 1, b, dlast - 1), b, first, lst - 1, dlast - 1)

\* std::move(first, last, d_first) inside block b
RECURSIVE MoveForward(_, _, _, _, _)
MoveForward(s, b, first, lst, dfirst) ==
    IF first = lst THEN s
    ELSE IF first > lst THEN [s EXCEPT !.ub = TRUE]
    ELSE MoveForward(MoveAssignElem(s, b, first, b, dfirst), b, first + 1, lst, dfirst + 1)

\* ------------------------------------------------------------------ Vector
Size(s, v) == s.vec[v].size_
Capacity(s, v) == s.vec[v].capacity_
Begin(s, v) == [b |-> s.vec[v].buffer_, i |-> 0]
End(s, v) == [b |-> s.vec[v].buffer_, i |-> s.vec[v].size_]

\* A relocation that moves whatever the element type is.
MoveElementsAlwaysMove(s, fb, fi, size, tb, ti) ==
    DestroyN(UninitializedMoveN(s, fb, fi, size, tb, ti), fb, fi, size)

\* Vector::MoveElements(from, size, to)
MoveElements(s, fb, fi, size, tb, ti) ==
    LET s1 == IF s.relocByMove
              THEN UninitializedMoveN(s, fb, fi, size, tb, ti)
              ELSE UninitializedCopyN(s, fb, fi, size, tb, ti)
    IN  IF s1.threw THEN s1 ELSE DestroyN(s1, fb, fi, size)

\* Vector::Vector()
VectorDefault(s, v) ==
    [s EXCEPT !.vec[v] = [alive |-> TRUE, buffer_ |-> 0, capacity_ |-> 0, size_ |-> 0]]

\* Vector::Vector(size_t size)
VectorSized(s, v, n) ==
    LET s1 == Allocate(s, n) IN
    IF s1.threw THEN s1
    ELSE UninitializedValueConstructN(
             [s1 EXCEPT !.vec[v] = [alive |-> TRUE, buffer_ |-> s1.r,
                                    capacity_ |-> n, size_ |-> n]],
             s1.r, 0, n)

\* A copy constructor whose buffer is not released when a copy throws (as
\* with a raw owning pointer in place of the RawMemory member).
VectorCopyLeaky(s, v, o) ==
    LET n  == Size(s, o)
        s1 == Allocate(s, n)
    IN  IF s1.threw THEN s1
        ELSE LET s2 == UninitializedCopyN(s1, s.vec[o].buffer_, 0, n, s1.r, 0) IN
             IF s2.threw THEN s2
             ELSE [s2 EXCEPT !.vec[v] = [alive |-> TRUE, buffer_ |-> s1.r,
                                         capacity_ |-> n, size_ |-> n]]

\* Vector::Vector(const Vector& other).  When a copy throws, the member
\* data_ is destroyed (its block is deallocated) and no object is produced.
VectorCopy(s, v, o) ==
    LET n  == Size(s, o)
        s1 == Allocate(s, n)
    IN  IF s1.threw THEN s1
        ELSE LET s2 == UninitializedCopyN(s1, s.vec[o].buffer_, 0, n, s1.r, 0) IN
             IF s2.threw THEN Deallocate(s2, s1.r)
             ELSE [s2 EXCEPT !.vec[v] = [alive |-> TRUE, buffer_ |-> s1.r,
                                         capacity_ |-> n, size_ |-> n]]

\* A move constructor that takes the source's members and leaves the
\* source as it was (a memberwise copy of pointer and sizes).
VectorMoveShallow(s, v, o) ==
    [s EXCEPT !.vec[v] = [alive |-> TRUE, buffer_ |-> s.vec[o].buffer_,
                          capacity_ |-> s.vec[o].capacity_,
                          size_ |-> s.vec[o].size_]]

\* Vector::Vector(Vector&& other), with RawMemory::RawMemory(RawMemory&&)
VectorMove(s, v, o) ==
    LET s1 == [s EXCEPT !.vec[v] = [alive |-> TRUE, buffer_ |-> s.vec[o].buffer_,
                                    capacity_ |-> s.vec[o].capacity_,
                                    size_ |-> s.vec[o].size_]]
        s2 == [s1 EXCEPT !.vec[o].buffer_ = 0, !.vec[o].capacity_ = 0]
    IN  [s2 EXCEPT !.vec[o].size_ = 0]

\* Vector::~Vector(), followed by RawMemory::~RawMemory() of data_
VectorDtor(s, v) ==
    LET s1 == DestroyN(s, s.vec[v].buffer_, 0, Size(s, v))
        s2 == Deallocate(s1, s.vec[v].buffer_)
    IN  [s2 EXCEPT !.vec[v] = NoVector]

\* Vector::Swap, with RawMemory::Swap
Swap(s, v, o) ==
    [s EXCEPT !.vec[v].buffer_ = s.vec[o].buffer_,
              !.vec[v].capacity_ = s.vec[o].capacity_,
              !.vec[v].size_ = s.vec[o].size_,
              !.vec[o].buffer_ = s.vec[v].buffer_,
              !.vec[o].capacity_ = s.vec[v].capacity_,
              !.vec[o].size_ = s.vec[v].size_]

\* for (i = 0; i < n; ++i) data_[i] = other[i];
RECURSIVE CopyAssignLoop(_, _, _, _, _)
CopyAssignLoop(s, vb, ob, i, n) ==
    IF i = n THEN s
    ELSE CopyAssignLoop(AssignAt(s, vb, i, Load(s, ob, i)), vb, ob, i + 1, n)

\* The first slot handed to std::destroy_n in the shrinking branch of the
\* copy assignment: data_.GetAddress() + size_.
SurplusFirst(size, otherSize) == size

\* Vector::operator=(const Vector& other)
CopyAssign(s, v, o) ==
    IF v = o THEN s
    ELSE IF Capacity(s, v) < Size(s, o)
    THEN LET s1 == VectorCopy(s, "tmp", o) IN
         IF s1.threw THEN s1
         ELSE VectorDtor(Swap(s1, v, "tmp"), "tmp")
    ELSE LET vb == s.vec[v].buffer_
             ob == s.vec[o].buffer_
             sz == Size(s, v)
             os == Size(s, o)
             s1 == CopyAssignLoop(s, vb, ob, 0, IF sz < os THEN sz ELSE os)
             s2 == IF sz < os
                   THEN UninitializedCopyN(s1, ob, sz, os - sz, vb, sz)
                   ELSE DestroyN(s1, vb, SurplusFirst(sz, os), sz - os)
         IN  IF s2.threw THEN s2
             ELSE [s2 EXCEPT !.vec[v].size_ = os]

\* RawMemory::operator=(RawMemory&& other)
RawMemoryMoveAssign(s, v, o) ==
    LET s1 == [s EXCEPT !.vec[v].buffer_ = s.vec[o].buffer_]
        s2 == [s1 EXCEPT !.vec[v].capacity_ = s1.vec[o].capacity_]
        s3 == [s2 EXCEPT !.vec[o].buffer_ = 0]
    IN  [s3 EXCEPT !.vec[o].capacity_ = 0]

\* Vector::operator=(Vector&& other)
MoveAssign(s, v, o) ==
    LET s1 == RawMemoryMoveAssign(s, v, o)
        s2 == [s1 EXCEPT !.vec[v].size_ = s1.vec[o].size_]
    IN  [s2 EXCEPT !.vec[o].size_ = 0]

\* A Reserve that also gives storage back: it reallocates to any capacity
\* that differs from the current one and still holds the elements.
ReserveShrinking(s, v, newCapacity) ==
    IF newCapacity = Capacity(s, v) \/ newCapacity < Size(s, v) THEN s
    ELSE LET s1 == Allocate(s, newCapacity) IN
         IF s1.threw THEN s1
         ELSE LET old == s.vec[v].buffer_
                  s2  == MoveElements(s1, old, 0, Size(s, v), s1.r, 0)
              IN  IF s2.threw THEN Deallocate(s2, s1.r)
                  ELSE Deallocate([s2 EXCEPT !.vec[v].buffer_ = s1.r,
                                             !.vec[v].capacity_ = newCapacity],
                                  old)

\* Vector::Reserve
Reserve(s, v, newCapacity) ==
    IF newCapacity <= Capacity(s, v) THEN s
    ELSE LET s1 == Allocate(s, newCapacity) IN
         IF s1.threw THEN s1
         ELSE LET old == s.vec[v].buffer_
                  s2  == MoveElements(s1, old, 0, Size(s, v), s1.r, 0)
              IN  IF s2.threw THEN Deallocate(s2, s1.r)
                  ELSE Deallocate([s2 EXCEPT !.vec[v].buffer_ = s1.r,
                                             !.vec[v].capacity_ = newCapacity],
                                  old)

\* Vector::Resize
Resize(s, v, newSize) ==
    IF Size(s, v) = newSize THEN s
    ELSE IF Size(s, v) > newSize
    THEN [DestroyN(s, s.vec[v].buffer_, newSize, Size(s, v) - newSize)
            EXCEPT !.vec[v].size_ = newSize]
    ELSE LET s1 == Reserve(s, v, newSize) IN
         IF s1.threw THEN s1
         ELSE [UninitializedValueConstructN(s1, s1.vec[v].buffer_, Size(s, v),
                                            newSize - Size(s, v))
                 EXCEPT !.vec[v].size_ = newSize]

\* A growth by one slot per reallocation.
NewCapacityPlusOne(size) == size + 1

\* size_ == 0 ? 1 : size_ * 2
NewCapacity(size) == IF size = 0 THEN 1 ELSE size * 2

\* Vector::EmplaceBack (PushBack forwards to it)
EmplaceBack(s, v, x) ==
    LET sz  == Size(s, v)
        fin(t) == [t EXCEPT !.vec[v].size_ = sz + 1,
                            !.ret = [b |-> t.vec[v].buffer_, i |-> sz]]
    IN  IF sz < Capacity(s, v)
        THEN fin(ConstructAt(s, s.vec[v].buffer_, sz, x))
        ELSE LET s1 == Allocate(s, NewCapacity(sz)) IN
             IF s1.threw THEN s1
             ELSE LET old == s.vec[v].buffer_
                      s2  == ConstructAt(s1, s1.r, sz, x)
                      s3  == MoveElements(s2, old, 0, sz, s1.r, 0)
                  IN  IF s3.threw THEN Deallocate(s3, s1.r)
                      ELSE fin(Deallocate([s3 EXCEPT !.vec[v].buffer_ = s1.r,
                                                     !.vec[v].capacity_ = NewCapacity(sz)],
                                          old))

\* Vector::PopBack
PopBack(s, v) ==
    DestroyAt([s EXCEPT !.vec[v].size_ = @ - 1], s.vec[v].buffer_, Size(s, v) - 1)

\* Vector::Erase(pos), pos == begin() + index
Erase(s, v, index) ==
    LET b  == s.vec[v].buffer_
        s1 == MoveForward(s, b, index + 1, Size(s, v), index)
        s2 == [s1 EXCEPT !.vec[v].size_ = @ - 1]
    IN  [DestroyAt(s2, b, Size(s2, v)) EXCEPT !.ret = [b |-> b, i |-> index]]

\* (*this)[index] = x
SetAt(s, v, index, x) == AssignAt(s, s.vec[v].buffer_, index, x)

\* A handler of the prefix failure that lets the new element go with its
\* block.
PrefixFailureNoDestroy(s, nb, index) == Deallocate(s, nb)

\* The handler of a failed prefix relocation in Vector::Emplace:
\* std::destroy_at(new_data + index); throw; then ~RawMemory of new_data.
PrefixFailure(s, nb, index) == Deallocate(DestroyAt(s, nb, index), nb)

\* Vector::Emplace(pos, args) (Insert forwards to it), pos == begin() + i.
\* After an EmplaceBack that reallocated, pos points into the released
\* block and pos - begin() is undefined: the index is then the arbitrary
\* number g, and the call cannot go on unless g is a position of the vector.
Emplace(s, v, i, x, g) ==
    LET pos == [b |-> s.vec[v].buffer_, i |-> i]
        s1  == IF pos = End(s, v) THEN EmplaceBack(s, v, x) ELSE s
    IN  IF s1.threw THEN s1
        ELSE
        LET same  == (Begin(s1, v).b = pos.b)
            sz    == Size(s1, v)
            b     == s1.vec[v].buffer_
            index == IF same THEN pos.i ELSE g
            s1u   == [s1 EXCEPT !.ub = @ \/ ~same]
            fin(t) == [t EXCEPT !.vec[v].size_ = sz + 1,
                                !.ret = [b |-> t.vec[v].buffer_, i |-> index]]
        IN  IF ~same /\ index >= sz THEN [s1u EXCEPT !.abort = TRUE]
            ELSE IF sz < Capacity(s1, v)
            THEN LET temp == x
                     sA == MoveConstruct(s1u, b, sz - 1, b, sz)
                     sB == MoveBackward(sA, b, index, sz - 1, sz)
                 IN  fin(AssignAt(sB, b, index, temp))
            ELSE LET s2 == Allocate(s1u, NewCapacity(sz)) IN
                 IF s2.threw THEN s2
                 ELSE LET nb == s2.r
                          s3 == ConstructAt(s2, nb, index, x)
                          s4 == MoveElements(s3, b, 0, index, nb, 0)
                      IN  IF s4.threw
                          THEN PrefixFailure(s4, nb, index)
                          ELSE LET s5 == MoveElements(s4, b, index, sz - index, nb, index + 1) IN
                               IF s5.threw
                               THEN Deallocate(DestroyN(s5, b, 0, index + 1), nb)
                               ELSE fin(Deallocate([s5 EXCEPT !.vec[v].buffer_ = nb,
                                                              !.vec[v].capacity_ = NewCapacity(sz)],
                                                   b))

\* ----------------------------------------------------------------- actions
\* At most one failure is injected into a call: the c-th copy construction
\* (c <= maxc) or the a-th allocation (a <= maxa) throws.  In the scope
\* "nofail" no allocation and no element operation ever fails.
AtMost(n, bound) == IF n < bound THEN n ELSE bound

Fails(maxc, maxa) ==
    IF scope = "nofail" THEN {[c |-> 0, a |-> 0]}
    ELSE {[c |-> 0, a |-> 0]}
         \cup {[c |-> k, a |-> 0] : k \in 1..AtMost(maxc, MaxFail)}
         \cup {[c |-> 0, a |-> k] : k \in 1..AtMost(maxa, MaxAllocFail)}

\* The history of a state in which no call has just returned.
NoCall == [op |-> "none", v |-> "a", o |-> "a", n |-> 0, x |-> 0,
           pre |-> [mem |-> <<>>, vec |-> <<>>, prov |-> <<>>],
           log |-> <<>>, threw |-> FALSE, exc |-> "none",
           ncopy |-> 0, ub |-> FALSE, ret |-> NullPtr, leaks |-> {}]

NoProv == [how |-> "other", n |-> 0, appends |-> 0, step |-> -1]

\* The scripted run: start empty; append 1, 2, 3; insert 99 at index 1;
\* erase at index 0; pop back.
TheScript ==
    << [op |-> "EmplaceBack", n |-> 0, x |-> 1],
       [op |-> "EmplaceBack", n |-> 0, x |-> 2],
       [op |-> "EmplaceBack", n |-> 0, x |-> 3],
       [op |-> "Emplace", n |-> 1, x |-> 99],
       [op |-> "Erase", n |-> 0, x |-> 0],
       [op |-> "PopBack", n |-> 0, x |-> 0] >>

\* The number of calls of the script a vector has gone through when the
\* call (name, n, x) returns; -1 once its calls depart from the script.
ScriptStep(step, name, n, x) ==
    IF step \in 0..(Len(TheScript) - 1)
       /\ TheScript[step + 1] = [op |-> name, n |-> n, x |-> x]
    THEN step + 1 ELSE -1

\* The provenance of each vector after a call: how it was constructed and
\* how many appends it has had since, as long as nothing else was called
\* on it.  (The growth history is followed in the single scope, where the
\* blocks are large enough for it.)
ProvAfter(name, v, o, n, x, res) ==
    [w \in Names |->
        IF res.threw /\ w \in {v, o} THEN NoProv
        ELSE IF name = "Vector()" /\ w = v /\ scope = "single"
             THEN [how |-> "default", n |-> 0, appends |-> 0, step |-> -1]
        ELSE IF name = "Vector()" /\ w = v /\ scope = "script"
             THEN [how |-> "other", n |-> 0, appends |-> 0, step |-> 0]
        ELSE IF name = "Vector(n)" /\ w = v /\ scope = "single"
             THEN [how |-> "sized", n |-> n, appends |-> 0, step |-> -1]
        ELSE IF name = "Vector(&&)" /\ w = o
             THEN [how |-> "moved_from", n |-> 0, appends |-> 0, step |-> -1]
        ELSE IF name = "EmplaceBack" /\ w = v /\ prov[w].how \in {"default", "sized"}
             THEN [prov[w] EXCEPT !.appends = @ + 1]
        ELSE IF w = v /\ scope = "script"
             THEN [NoProv EXCEPT !.step = ScriptStep(prov[w].step, name, n, x)]
        ELSE IF w \in {v, o} THEN NoProv
        ELSE prov[w]]

\* The blocks that are allocated when a call returns and that no Vector
\* object points to: the program cannot reach them again.  They leave the
\* modelled heap; last.leaks keeps the record.
Unowned(res) ==
    {b \in 1..MaxBlocks : res.mem[b].alloc /\ \A w \in Objects : res.vec[w].buffer_ # b}

CapLimit == IF scope \in {"pair", "nofail"} THEN MaxCapPair
            ELSE IF scope = "script" THEN MaxCapScript ELSE MaxCap
Vals == IF scope = "script" THEN ScriptVal ELSE Val
InScope == IF scope \in {"pair", "nofail"} THEN Names ELSE {"a"}

\* One call: the program state becomes the state the member function
\* returns (or is left in when it throws), and last becomes the record of
\* the call.  A call that ran into undefined behaviour may also stop the
\* program.  The next call starts once the record has been dropped.
Apply(name, v, o, n, x, res) ==
    LET unowned == Unowned(res) IN
    /\ ~halted
    /\ last = NoCall
    /\ ~res.over
    /\ mem' = [b \in 1..MaxBlocks |-> IF b \in unowned THEN FreeBlock ELSE res.mem[b]]
    /\ vec' = res.vec
    /\ UNCHANGED <<elemType, scope>>
    /\ last' = [op |-> name, v |-> v, o |-> o, n |-> n, x |-> x,
                pre |-> [mem |-> mem, vec |-> vec, prov |-> prov],
                log |-> res.log, threw |-> res.threw, exc |-> res.exc,
                ncopy |-> res.ncopy, ub |-> res.ub, ret |-> res.ret,
                leaks |-> {[b |-> b, live |-> LiveCount(res.mem, b)] : b \in unowned}]
    /\ prov' = ProvAfter(name, v, o, n, x, res)
    /\ halted' \in (IF res.abort THEN {TRUE} ELSE IF res.ub THEN BOOLEAN ELSE {FALSE})

\* The number of copy constructions a relocation of v's elements makes.
RelocCopies(v) ==
    IF NothrowMoveConstructible(elemType) \/ ~CopyConstructible(elemType)
    THEN 0 ELSE vec[v].size_

\* The record of the returned call is dropped.
Forget ==
    /\ last # NoCall
    /\ last' = NoCall
    /\ UNCHANGED <<mem, vec, elemType, scope, prov, halted>>

DefaultCtorOp ==
    \E v \in InScope :
        /\ ~vec[v].alive
        /\ Apply("Vector()", v, v, 0, 0, VectorDefault(Start(0, 0), v))

SizedCtorOp ==
    \E v \in InScope, n \in 0..CapLimit, f \in Fails(0, 1) :
        /\ ~vec[v].alive
        /\ Apply("Vector(n)", v, v, n, 0, VectorSized(Start(f.c, f.a), v, n))

CopyCtorOp ==
    \E v \in InScope, o \in InScope :
      \E f \in Fails(vec[o].size_, 1) :
        /\ CopyConstructible(elemType)
        /\ ~vec[v].alive /\ vec[o].alive
        /\ Apply("Vector(const&)", v, o, 0, 0, VectorCopy(Start(f.c, f.a), v, o))

MoveCtorOp ==
    \E v \in InScope, o \in InScope :
        /\ ~vec[v].alive /\ vec[o].alive
        /\ Apply("Vector(&&)", v, o, 0, 0, VectorMove(Start(0, 0), v, o))

DtorOp ==
    \E v \in InScope :
        /\ vec[v].alive
        /\ Apply("~Vector", v, v, 0, 0, VectorDtor(Start(0, 0), v))

CopyAssignOp ==
    \E v \in InScope, o \in InScope :
      \E f \in Fails(vec[o].size_, 1) :
        /\ CopyConstructible(elemType)
        /\ vec[v].alive /\ vec[o].alive
        /\ Apply("operator=(const&)", v, o, 0, 0, CopyAssign(Start(f.c, f.a), v, o))

MoveAssignOp ==
    \E v \in InScope, o \in InScope :
        /\ vec[v].alive /\ vec[o].alive
        /\ Apply("operator=(&&)", v, o, 0, 0, MoveAssign(Start(0, 0), v, o))

SwapOp ==
    \E v \in InScope, o \in InScope :
        /\ vec[v].alive /\ vec[o].alive
        /\ Apply("Swap", v, o, 0, 0, Swap(Start(0, 0), v, o))

ReserveOp ==
    \E v \in InScope, n \in 0..CapLimit :
      \E f \in Fails(RelocCopies(v), 1) :
        /\ vec[v].alive
        /\ Apply("Reserve", v, v, n, 0, Reserve(Start(f.c, f.a), v, n))

ResizeOp ==
    \E v \in InScope, n \in 0..CapLimit :
      \E f \in Fails(RelocCopies(v), 1) :
        /\ vec[v].alive
        /\ Apply("Resize", v, v, n, 0, Resize(Start(f.c, f.a), v, n))

EmplaceBackOp ==
    \E v \in InScope, x \in Vals :
      \E f \in Fails(RelocCopies(v), 1) :
        /\ vec[v].alive
        /\ Apply("EmplaceBack", v, v, 0, x, EmplaceBack(Start(f.c, f.a), v, x))

EmplaceOp ==
    \E v \in InScope, x \in Vals :
      \E f \in Fails(RelocCopies(v) + 1, 2) :
        /\ vec[v].alive
        /\ \E i \in 0..vec[v].size_ :
             \E g \in (IF i = vec[v].size_ /\ i = vec[v].capacity_ THEN 0..CapLimit ELSE {0}) :
                Apply("Emplace", v, v, i, x, Emplace(Start(f.c, f.a), v, i, x, g))

PopBackOp ==
    \E v \in InScope :
        /\ vec[v].alive
        /\ vec[v].size_ > 0
        /\ Apply("PopBack", v, v, 0, 0, PopBack(Start(0, 0), v))

EraseOp ==
    \E v \in InScope :
        /\ vec[v].alive
        /\ \E i \in 0..(vec[v].size_ - 1) :
             Apply("Erase", v, v, i, 0, Erase(Start(0, 0), v, i))

SetAtOp ==
    \E v \in InScope, x \in Vals :
        /\ vec[v].alive
        /\ \E i \in 0..(vec[v].size_ - 1) :
             Apply("operator[]", v, v, i, x, SetAt(Start(0, 0), v, i, x))

InitIn(sc) ==
    /\ scope = sc
    /\ elemType \in (IF sc = "single" THEN ElemTypes
                     ELSE {t \in ElemTypes : CopyConstructible(t)})
    /\ mem = [b \in 1..MaxBlocks |-> FreeBlock]
    /\ vec = [v \in Objects |->
                IF v \in InScope
                THEN [alive |-> TRUE, buffer_ |-> 0, capacity_ |-> 0, size_ |-> 0]
                ELSE NoVector]
    /\ last = NoCall
    /\ prov = [v \in Names |->
                IF v \in InScope /\ scope = "single"
                THEN [how |-> "default", n |-> 0, appends |-> 0, step |-> -1]
                ELSE IF v \in InScope /\ scope = "script"
                THEN [how |-> "other", n |-> 0, appends |-> 0, step |-> 0]
                ELSE NoProv]
    /\ halted = FALSE

Next ==
    \/ DefaultCtorOp
    \/ SizedCtorOp
    \/ CopyCtorOp
    \/ MoveCtorOp
    \/ DtorOp
    \/ CopyAssignOp
    \/ MoveAssignOp
    \/ SwapOp
    \/ ReserveOp
    \/ ResizeOp
    \/ EmplaceBackOp
    \/ EmplaceOp
    \/ PopBackOp
    \/ EraseOp
    \/ SetAtOp
    \/ Forget

\* The calls on one vector object; the constructors that take another
\* vector need a second object and are left to the pair scope.
NextSingle ==
    \/ DefaultCtorOp
    \/ SizedCtorOp
    \/ DtorOp
    \/ CopyAssignOp
    \/ MoveAssignOp
    \/ SwapOp
    \/ ReserveOp
    \/ ResizeOp
    \/ EmplaceBackOp
    \/ EmplaceOp
    \/ PopBackOp
    \/ EraseOp
    \/ SetAtOp
    \/ Forget

\* The calls of the scripted run, with every argument and failure they
\* can take.
NextScript ==
    \/ DefaultCtorOp
    \/ DtorOp
    \/ EmplaceBackOp
    \/ EmplaceOp
    \/ PopBackOp
    \/ EraseOp
    \/ Forget

InitSingle == InitIn("single")
InitPair == InitIn("pair")
InitScript == InitIn("script")
InitNoFail == InitIn("nofail")

\* One vector, blocks of up to MaxCap elements.
SpecSingle == InitSingle /\ [][NextSingle]_vars

\* Two vectors, blocks of up to MaxCapPair elements.
SpecPair == InitPair /\ [][Next]_vars

\* One vector, blocks of up to MaxCapScript elements, the values of the
\* scripted run.
SpecScript == InitScript /\ [][NextScript]_vars

\* Two vectors, blocks of up to MaxCapPair elements, every call of the
\* interface, and no allocation or element operation that fails.
SpecNoFail == InitNoFail /\ [][Next]_vars

\* ------------------------------------------------- what the claims speak of
\* The element sequence [0, size_) of a vector vr in heap m.
Elems(m, vr) ==
    [j \in 1..vr.size_ |->
        IF vr.buffer_ \in 1..MaxBlocks /\ j <= Len(m[vr.buffer_].cells)
        THEN m[vr.buffer_].cells[j] ELSE Raw]

NowElems(v) == Elems(mem, vec[v])
PreElems(v) == Elems(last.pre.mem, last.pre.vec[v])

InsertAt(seq, i, x) == SubSeq(seq, 1, i) \o <<x>> \o SubSeq(seq, i + 1, Len(seq))
RemoveAt(seq, i) == SubSeq(seq, 1, i) \o SubSeq(seq, i + 2, Len(seq))

\* The events of the last call, by kind.
Events(e) == {k \in 1..Len(last.log) : last.log[k].e = e}
EventsAt(e, b) == {k \in Events(e) : last.log[k].b = b}

\* size_ <= capacity_, the block has capacity_ slots, and exactly the
\* slots [0, size_) hold an object.
WellFormed(m, vr) ==
    /\ vr.size_ >= 0
    /\ vr.size_ <= vr.capacity_
    /\ IF vr.buffer_ = 0 THEN vr.capacity_ = 0
       ELSE /\ vr.buffer_ \in 1..MaxBlocks
            /\ m[vr.buffer_].alloc
            /\ Len(m[vr.buffer_].cells) = vr.capacity_
            /\ \A j \in 1..vr.capacity_ :
                 (m[vr.buffer_].cells[j] # Raw) <=> (j <= vr.size_)

Other(v) == IF v = "a" THEN "b" ELSE "a"

\* ------------------------------------------------------------------ claims
\* C1: after every public operation that returned, every vector has
\* 0 <= size <= capacity, exactly the slots [0, size) of its buffer hold
\* constructed elements, and the slots [size, capacity) hold none.
C1_SlotsInvariant ==
    (last.op # "none" /\ ~last.threw) =>
        \A v \in Names : vec[v].alive => WellFormed(mem, vec[v])

\* C2: after each EmplaceBack/PushBack the size is the previous size plus
\* one, the appended value is the last element, and the elements below the
\* previous size are unchanged and in order, reallocation or not.
C2_AppendAddsLast ==
    (last.op = "EmplaceBack" /\ ~last.threw) =>
        /\ vec[last.v].size_ = last.pre.vec[last.v].size_ + 1
        /\ NowElems(last.v) = Append(PreElems(last.v), last.x)

\* C3: Emplace/Insert of x at index i of a vector of length n, 0 <= i <= n,
\* gives length n+1 with [0,i) unchanged, x at i and the old [i,n) after it;
\* at the end position it is an append and nothing else.
C3_InsertAtAnyIndex ==
    (last.op = "Emplace" /\ ~last.threw) =>
        /\ vec[last.v].size_ = last.pre.vec[last.v].size_ + 1
        /\ NowElems(last.v) = InsertAt(PreElems(last.v), last.n, last.x)

\* C4: Erase at index i of a vector of length n, 0 <= i < n, gives length
\* n-1 with [0,i) unchanged and the old [i+1,n) moved down by one; the
\* capacity and the buffer are unchanged, exactly one element is destroyed,
\* and the returned position is index i.
C4_EraseShiftsDown ==
    last.op = "Erase" =>
        /\ ~last.threw
        /\ vec[last.v].size_ = last.pre.vec[last.v].size_ - 1
        /\ NowElems(last.v) = RemoveAt(PreElems(last.v), last.n)
        /\ vec[last.v].capacity_ = last.pre.vec[last.v].capacity_
        /\ vec[last.v].buffer_ = last.pre.vec[last.v].buffer_
        /\ Cardinality(Events("destroy")) = 1
        /\ \A k \in Events("destroy") : last.log[k].ok
        /\ Events("dealloc") = {} /\ Events("alloc") = {} /\ Events("construct") = {}
        /\ last.ret = [b |-> vec[last.v].buffer_, i |-> last.n]
        /\ (last.n = last.pre.vec[last.v].size_ - 1 =>
                last.ret = [b |-> vec[last.v].buffer_, i |-> vec[last.v].size_])

\* C5: move assignment a = std::move(b) onto a vector a that holds elements
\* or owns a buffer destroys each previous element of a exactly once and
\* deallocates a's previous block exactly once; a ends with b's elements,
\* size and capacity, b with size 0, and nothing a owned stays allocated
\* and unowned.
C5_MoveAssignReleases ==
    (/\ last.op = "operator=(&&)"
     /\ last.v # last.o
     /\ last.pre.vec[last.v].buffer_ # 0) =>
        LET old == last.pre.vec[last.v] IN
        /\ \A i \in 0..(old.size_ - 1) :
             Cardinality({k \in EventsAt("destroy", old.buffer_) : last.log[k].i = i}) = 1
        /\ Cardinality(EventsAt("dealloc", old.buffer_)) = 1
        /\ last.leaks = {}
        /\ vec[last.v] = last.pre.vec[last.o]
        /\ NowElems(last.v) = PreElems(last.o)
        /\ vec[last.o].size_ = 0

\* C6: an EmplaceBack/PushBack at size < capacity leaves the capacity
\* unchanged; at size = capacity = c it leaves capacity max(1, 2c).  From a
\* default-constructed vector three appends give capacities 1, 2, 4; the
\* sized constructor with n = 3 gives capacity 3, and 6 after one append.
C6_GrowthRule ==
    /\ (last.op = "EmplaceBack" /\ ~last.threw) =>
          LET old == last.pre.vec[last.v] IN
          /\ old.size_ < old.capacity_ => vec[last.v].capacity_ = old.capacity_
          /\ old.size_ = old.capacity_ =>
                vec[last.v].capacity_ = (IF 2 * old.capacity_ > 1 THEN 2 * old.capacity_ ELSE 1)
    /\ \A v \in Names :
          /\ (prov[v].how = "default" /\ prov[v].appends = 0) => vec[v].capacity_ = 0
          /\ (prov[v].how = "default" /\ prov[v].appends = 1) => vec[v].capacity_ = 1
          /\ (prov[v].how = "default" /\ prov[v].appends = 2) => vec[v].capacity_ = 2
          /\ (prov[v].how = "default" /\ prov[v].appends = 3) => vec[v].capacity_ = 4
          /\ (prov[v].how = "sized" /\ prov[v].appends = 0) =>
                (vec[v].capacity_ = prov[v].n /\ vec[v].size_ = prov[v].n)
          /\ (prov[v].how = "sized" /\ prov[v].n = 3 /\ prov[v].appends = 1) =>
                (vec[v].capacity_ = 6 /\ vec[v].size_ = 4)

C6_Witness ==
    /\ last.op = "EmplaceBack" /\ ~last.threw
    /\ prov[last.v].how = "sized" /\ prov[last.v].n = 3 /\ prov[last.v].appends = 1
    /\ vec[last.v].capacity_ = 6

\* C7: a copy assignment a = b with a.Capacity() < b.Size() whose k-th copy
\* construction throws leaves a and b exactly as they were (size, capacity,
\* buffer, elements), destroys every copy made before the failure and
\* deallocates the temporary block.
C7_CopyAssignStrong ==
    (/\ last.op = "operator=(const&)"
     /\ last.exc = "copy"
     /\ last.pre.vec[last.v].capacity_ < last.pre.vec[last.o].size_) =>
        /\ vec = last.pre.vec
        /\ mem = last.pre.mem
        /\ last.leaks = {}
        /\ Cardinality(Events("alloc")) = 1
        /\ Cardinality(Events("dealloc")) = 1
        /\ \A k \in Events("dealloc") :
             /\ last.log[k].ok
             /\ last.log[k].i = 0
             /\ EventsAt("alloc", last.log[k].b) # {}
        /\ Cardinality(Events("construct")) = last.ncopy - 1
        /\ Cardinality(Events("destroy")) = last.ncopy - 1
        /\ \A k \in Events("destroy") \cup Events("construct") : last.log[k].ok
        /\ Events("assign") = {}

C7_Witness ==
    /\ last.op = "operator=(const&)"
    /\ last.exc = "copy"
    /\ last.ncopy = 2
    /\ last.pre.vec[last.v].size_ = 1
    /\ last.pre.vec[last.v].capacity_ = 1
    /\ last.pre.vec[last.o].size_ = 2

\* C8: a successful copy assignment a = b, a and b distinct, leaves a with
\* b's size and elements and b unchanged, and exactly b.Size() live
\* elements in a; a's capacity and buffer are unchanged when its capacity
\* sufficed, and the capacity is exactly b.Size() when it did not.
C8_CopyAssignResult ==
    (last.op = "operator=(const&)" /\ last.v # last.o /\ ~last.threw) =>
        LET olda == last.pre.vec[last.v]
            oldb == last.pre.vec[last.o]
        IN  /\ vec[last.v].size_ = oldb.size_
            /\ NowElems(last.v) = PreElems(last.o)
            /\ vec[last.o] = oldb
            /\ NowElems(last.o) = PreElems(last.o)
            /\ vec[last.v].buffer_ # 0 => LiveCount(mem, vec[last.v].buffer_) = oldb.size_
            /\ olda.capacity_ >= oldb.size_ =>
                  /\ vec[last.v].capacity_ = olda.capacity_
                  /\ vec[last.v].buffer_ = olda.buffer_
                  /\ Events("alloc") = {}
            /\ olda.capacity_ < oldb.size_ => vec[last.v].capacity_ = oldb.size_

\* C9: move construction gives dst src's prior elements, size and capacity
\* without constructing, copying or destroying an element; src is left
\* with size 0, capacity 0 and a null buffer, and destroying src afterwards
\* deallocates nothing and destroys no element.
C9_MoveConstruct ==
    /\ last.op = "Vector(&&)" =>
          /\ vec[last.v] = last.pre.vec[last.o]
          /\ NowElems(last.v) = PreElems(last.o)
          /\ vec[last.o] = [alive |-> TRUE, buffer_ |-> 0, capacity_ |-> 0, size_ |-> 0]
          /\ last.log = <<>>
          /\ mem = last.pre.mem
    /\ (last.op = "~Vector" /\ last.pre.prov[last.v].how = "moved_from") =>
          /\ last.log = <<>>
          /\ mem = last.pre.mem
          /\ vec[Other(last.v)] = last.pre.vec[Other(last.v)]

C9_Witness ==
    /\ last.op = "~Vector"
    /\ last.pre.prov[last.v].how = "moved_from"
    /\ vec[Other(last.v)].alive
    /\ vec[Other(last.v)].size_ = 2
    /\ NowElems(Other(last.v)) = <<1, 0>>

\* C10: a copy-constructed vector has the size of the original, capacity
\* exactly that size, equal elements and its own buffer; a mutation of
\* one vector (append, insert, erase, pop-back, resize, reserve, element
\* write) leaves the other's length, capacity and elements unchanged.
Mutations == {"EmplaceBack", "Emplace", "Erase", "PopBack", "Resize", "Reserve", "operator[]"}

C10_CopyIsIndependent ==
    /\ (last.op = "Vector(const&)" /\ ~last.threw) =>
          /\ vec[last.v].alive
          /\ vec[last.v].size_ = last.pre.vec[last.o].size_
          /\ vec[last.v].capacity_ = last.pre.vec[last.o].size_
          /\ NowElems(last.v) = PreElems(last.o)
          /\ vec[last.o] = last.pre.vec[last.o]
          /\ NowElems(last.o) = PreElems(last.o)
          /\ vec[last.v].size_ > 0 => vec[last.v].buffer_ # vec[last.o].buffer_
    /\ last.op \in Mutations =>
          /\ vec[Other(last.v)] = last.pre.vec[Other(last.v)]
          /\ vec[Other(last.v)].alive =>
                NowElems(Other(last.v)) = Elems(last.pre.mem, last.pre.vec[Other(last.v)])
    /\ \A v \in Names :
          (vec[v].alive /\ vec[Other(v)].alive /\ vec[v].buffer_ # 0) =>
              vec[v].buffer_ # vec[Other(v)].buffer_

\* Every vector was well formed before the last call.
PreWellFormed ==
    /\ last.op # "none"
    /\ \A v \in Names :
         last.pre.vec[v].alive => WellFormed(last.pre.mem, last.pre.vec[v])

\* The statements of C2, C4 and C10 for calls made while every vector is
\* well formed: the calls that break them start from a vector that a
\* failed Emplace left with destroyed elements inside [0, size).
AppendOnWellFormed == PreWellFormed => C2_AppendAddsLast
EraseOnWellFormed == PreWellFormed => C4_EraseShiftsDown
CopyOnWellFormed == PreWellFormed => C10_CopyIsIndependent

\* The call that just returned was an Emplace at index last.n of a full
\* vector.
FullEmplace ==
    /\ last.op = "Emplace"
    /\ last.pre.vec[last.v].size_ = last.pre.vec[last.v].capacity_

\* Every object the last call constructed was destroyed by it exactly once.
BuiltAreDestroyedOnce ==
    \A k \in Events("construct") :
        Cardinality({d \in Events("destroy") :
                        /\ last.log[d].b = last.log[k].b
                        /\ last.log[d].i = last.log[k].i}) = 1

\* The last call left every vector and the heap as they were, and released
\* every block it allocated with no object left in it.
RolledBack ==
    /\ vec = last.pre.vec
    /\ mem = last.pre.mem
    /\ last.leaks = {}
    /\ Cardinality(Events("dealloc")) = Cardinality(Events("alloc"))
    /\ \A k \in Events("dealloc") :
         /\ last.log[k].ok
         /\ last.log[k].i = 0
         /\ EventsAt("alloc", last.log[k].b) # {}

\* C11: an Emplace at an interior index i of a full vector whose suffix
\* relocation fails after the prefix was relocated leaves the vector as
\* it was (size, capacity, buffer, elements); the prefix copies and the
\* new element built in the new buffer are each destroyed exactly once,
\* and no element of the old buffer is destroyed.
C11_EmplaceSuffixFailure ==
    (/\ FullEmplace
     /\ last.exc = "copy"
     /\ 0 < last.n
     /\ last.n < last.pre.vec[last.v].size_
     /\ last.ncopy > last.n) =>
        /\ RolledBack
        /\ BuiltAreDestroyedOnce
        /\ EventsAt("destroy", last.pre.vec[last.v].buffer_) = {}

\* C12: when an EmplaceBack/PushBack on a full vector reallocates and the
\* relocation of the old elements fails, the element constructed at index
\* size of the new buffer is destroyed exactly once before the new buffer
\* is released, and the vector keeps its size, capacity and elements.
C12_AppendRelocationFailure ==
    (last.op = "EmplaceBack" /\ last.exc = "copy") =>
        LET nb == last.log[Min(Events("alloc"))].b
            sz == last.pre.vec[last.v].size_
        IN  /\ vec = last.pre.vec
            /\ NowElems(last.v) = PreElems(last.v)
            /\ Cardinality({d \in EventsAt("destroy", nb) :
                                last.log[d].i = sz /\ last.log[d].ok}) = 1
            /\ \A k \in EventsAt("dealloc", nb) : last.log[k].i = 0
            /\ Cardinality(EventsAt("dealloc", nb)) = 1

\* C13: when the allocator fails during Reserve, an append that grows or
\* an Emplace/Insert at any position of a full vector, the vector is left
\* as it was (size, capacity, buffer, every element) and no element was
\* constructed or destroyed.
C13_AllocationFailure ==
    (/\ last.exc = "bad_alloc"
     /\ \/ last.op \in {"Reserve", "EmplaceBack"}
        \/ FullEmplace) =>
        /\ vec = last.pre.vec
        /\ mem = last.pre.mem
        /\ last.leaks = {}
        /\ Events("construct") = {}
        /\ Events("destroy") = {}

\* The statement of C13 for an Emplace/Insert before the end position and
\* for Reserve and appends.
AllocationFailureBeforeEnd ==
    (last.op = "Emplace" /\ last.n = last.pre.vec[last.v].size_)
        \/ C13_AllocationFailure

\* C14: Reserve(n) with n <= Capacity() changes nothing and allocates
\* nothing; Reserve(n) with n > Capacity() makes the capacity exactly n,
\* leaves the size and the element sequence unchanged and deallocates the
\* old block exactly once.
C14_ReserveFrame ==
    (last.op = "Reserve" /\ ~last.threw) =>
        LET old == last.pre.vec[last.v] IN
        /\ last.n <= old.capacity_ =>
              /\ vec = last.pre.vec
              /\ mem = last.pre.mem
              /\ last.log = <<>>
        /\ last.n > old.capacity_ =>
              /\ vec[last.v].capacity_ = last.n
              /\ vec[last.v].size_ = old.size_
              /\ NowElems(last.v) = PreElems(last.v)
              /\ Cardinality(Events("alloc")) = 1
              /\ old.buffer_ # 0 =>
                    /\ Cardinality(EventsAt("dealloc", old.buffer_)) = 1
                    /\ vec[last.v].buffer_ # old.buffer_
              /\ Events("dealloc") = EventsAt("dealloc", old.buffer_)
              /\ \A k \in Events("dealloc") : last.log[k].ok
              /\ last.leaks = {}

ReserveOnWellFormed == PreWellFormed => C14_ReserveFrame

\* C15: Resize(n) on a vector of size s and capacity c leaves size n.
\* n = s changes nothing; n < s destroys exactly the trailing s - n
\* elements, keeps [0, n) and the capacity; n > s keeps [0, s), constructs
\* exactly n - s value-initialized elements at [s, n), and leaves capacity
\* c when n <= c and exactly n when n > c.
C15_ResizeResult ==
    (last.op = "Resize" /\ ~last.threw) =>
        LET old == last.pre.vec[last.v]
            s   == old.size_
            c   == old.capacity_
            n   == last.n
            nb  == vec[last.v].buffer_
        IN  /\ vec[last.v].size_ = n
            /\ n = s => (vec = last.pre.vec /\ mem = last.pre.mem /\ last.log = <<>>)
            /\ n < s =>
                  /\ NowElems(last.v) = SubSeq(PreElems(last.v), 1, n)
                  /\ vec[last.v].capacity_ = c
                  /\ nb = old.buffer_
                  /\ Cardinality(Events("destroy")) = s - n
                  /\ \A i \in n..(s - 1) :
                        \E k \in EventsAt("destroy", nb) :
                            last.log[k].i = i /\ last.log[k].ok
                  /\ Events("construct") = {} /\ Events("alloc") = {}
            /\ n > s =>
                  /\ SubSeq(NowElems(last.v), 1, s) = PreElems(last.v)
                  /\ \A j \in (s + 1)..n : NowElems(last.v)[j] = Default
                  /\ Cardinality({k \in EventsAt("construct", nb) : last.log[k].i >= s}) = n - s
                  /\ \A k \in EventsAt("construct", nb) : last.log[k].ok
                  /\ vec[last.v].capacity_ = (IF n <= c THEN c ELSE n)
                  /\ n <= c => (nb = old.buffer_ /\ Events("alloc") = {}
                                /\ Events("destroy") = {})

ResizeOnWellFormed == PreWellFormed => C15_ResizeResult

\* C16: an Emplace at an interior index i of a full vector whose prefix
\* relocation fails destroys the new element at index i of the new buffer
\* exactly once, destroys the prefix copies already made, deallocates the
\* new block, and leaves the vector as it was.
C16_EmplacePrefixFailure ==
    (/\ FullEmplace
     /\ last.exc = "copy"
     /\ 0 < last.n
     /\ last.n < last.pre.vec[last.v].size_
     /\ last.ncopy <= last.n) =>
        LET nb == last.log[Min(Events("alloc"))].b IN
        /\ RolledBack
        /\ BuiltAreDestroyedOnce
        /\ Cardinality({d \in EventsAt("destroy", nb) :
                            last.log[d].i = last.n /\ last.log[d].ok}) = 1
        /\ Cardinality(Events("construct")) = last.ncopy
        /\ Events("destroy") = EventsAt("destroy", nb)
        /\ \A d \in Events("destroy") : last.log[d].ok
        /\ Cardinality(EventsAt("dealloc", nb)) = 1

C16_Witness ==
    /\ FullEmplace
    /\ last.exc = "copy"
    /\ last.n = 2
    /\ last.pre.vec[last.v].size_ = 3
    /\ last.ncopy = 2
    /\ WellFormed(mem, vec[last.v])

\* The last call was a Reserve or an append that had to relocate the
\* elements into a new buffer.
Relocating ==
    \/ last.op = "Reserve" /\ last.n > last.pre.vec[last.v].capacity_
    \/ /\ last.op = "EmplaceBack"
       /\ last.pre.vec[last.v].size_ = last.pre.vec[last.v].capacity_

\* C17: for a copy-constructible element type whose move constructor may
\* throw, Reserve and a growing append relocate by copy, and when the copy
\* of the k-th element throws no source element was modified or
\* destroyed: the vector keeps buffer, size, capacity and elements, the
\* copies made are destroyed and the new block is deallocated.  For a type
\* whose move cannot throw or that is not copy-constructible they relocate
\* by move, and each source element is destroyed exactly once, after all
\* elements were transferred.
C17_RelocationPolicy ==
    LET old == last.pre.vec[last.v]
        sz  == old.size_
        nb  == last.log[Min(Events("alloc"))].b
        byCopy == CopyConstructible(elemType) /\ ~NothrowMoveConstructible(elemType)
    IN
    /\ (Relocating /\ last.exc = "copy") =>
          /\ byCopy
          /\ last.ncopy \in 1..sz
          /\ vec = last.pre.vec
          /\ mem = last.pre.mem
          /\ EventsAt("destroy", old.buffer_) = {}
          /\ Events("assign") = {}
          /\ Cardinality({k \in EventsAt("construct", nb) : last.log[k].i < sz})
                = last.ncopy - 1
          /\ \A k \in EventsAt("construct", nb) :
                last.log[k].i < sz =>
                    Cardinality({d \in EventsAt("destroy", nb) :
                                    last.log[d].i = last.log[k].i /\ last.log[d].ok}) = 1
          /\ Cardinality(EventsAt("dealloc", nb)) = 1
          /\ last.leaks = {}
    /\ (Relocating /\ ~last.threw) =>
          /\ last.ncopy = (IF byCopy THEN sz ELSE 0)
          /\ ~byCopy =>
                /\ \A i \in 0..(sz - 1) :
                      Cardinality({d \in EventsAt("destroy", old.buffer_) :
                                      last.log[d].i = i /\ last.log[d].ok}) = 1
                /\ Cardinality(EventsAt("destroy", old.buffer_)) = sz
                /\ \A d \in EventsAt("destroy", old.buffer_) :
                      \A k \in EventsAt("construct", nb) : k < d
                /\ NowElems(last.v) = PreElems(last.v) \o
                      (IF last.op = "EmplaceBack" THEN <<last.x>> ELSE <<>>)

C17_Witness ==
    /\ last.op = "Reserve"
    /\ last.exc = "copy"
    /\ last.ncopy = 2
    /\ last.pre.vec[last.v].size_ = 3
    /\ elemType = "throwing_move"

\* A move-only element type has been relocated by an append.
MoveOnlyRelocated ==
    /\ last.op = "EmplaceBack" /\ ~last.threw
    /\ last.pre.vec[last.v].size_ = 2
    /\ last.pre.vec[last.v].capacity_ = 2
    /\ elemType = "move_only"

\* C18: PopBack on a vector with size > 0 destroys exactly the last live
\* element, decrements the size by one and leaves the capacity, the buffer
\* and the elements [0, size-1) unchanged.  In the scripted run (start
\* empty, append 1, 2, 3, insert 99 at index 1, erase at index 0,
\* pop-back) the contents are [1,2,3] with capacity 4, then [1,99,2,3],
\* [99,2,3], [99,2].
C18_PopBackAndScript ==
    /\ last.op = "PopBack" =>
          LET old == last.pre.vec[last.v] IN
          /\ ~last.threw
          /\ vec[last.v] = [old EXCEPT !.size_ = old.size_ - 1]
          /\ NowElems(last.v) = SubSeq(PreElems(last.v), 1, old.size_ - 1)
          /\ Cardinality(Events("destroy")) = 1
          /\ \A k \in Events("destroy") :
                /\ last.log[k].ok
                /\ last.log[k].b = old.buffer_
                /\ last.log[k].i = old.size_ - 1
          /\ Len(last.log) = 1
    /\ \A v \in Names :
          /\ prov[v].step = 3 => (NowElems(v) = <<1, 2, 3>> /\ vec[v].capacity_ = 4)
          /\ prov[v].step = 4 => NowElems(v) = <<1, 99, 2, 3>>
          /\ prov[v].step = 5 => NowElems(v) = <<99, 2, 3>>
          /\ prov[v].step = 6 => NowElems(v) = <<99, 2>>

PopBackOnWellFormed ==
    (last.op = "none" \/ PreWellFormed) => C18_PopBackAndScript

\* The scripted run has been through its last call.
ScriptDone ==
    /\ last.op = "PopBack"
    /\ prov[last.v].step = 6

\* C19: in a sequence of calls in which no allocation and no element
\* operation fails, no destructor runs on a slot that holds no live
\* object, no placement construction runs over a slot that holds one, and
\* no block is deallocated twice.
C19_NoLifetimeMisuse ==
    \A k \in 1..Len(last.log) :
        last.log[k].e \in {"destroy", "construct", "dealloc"} => last.log[k].ok

\* The destructor part of C19 alone.
DestroyOnlyLive == \A k \in Events("destroy") : last.log[k].ok

\* The calls that break C19 on vectors whose slots [0, size) hold exactly
\* their elements are the shrinking copy assignment (C1, C8) and the
\* insertion at end() (C3).
NoLifetimeMisuseElsewhere ==
    (/\ PreWellFormed
     /\ last.op # "operator=(const&)"
     /\ ~(last.op = "Emplace" /\ last.n = last.pre.vec[last.v].size_))
    => C19_NoLifetimeMisuse

\* C20: no call of Reserve, Resize, EmplaceBack/PushBack, Emplace/Insert,
\* PopBack, Erase or copy assignment lowers the capacity of a vector; the
\* capacity of a vector goes down only when it is the source of a move
\* construction, the source or the target of a move assignment, or an
\* operand of Swap.
CapacityLowered(w) ==
    /\ last.op # "none"
    /\ last.pre.vec[w].alive
    /\ vec[w].alive
    /\ vec[w].capacity_ < last.pre.vec[w].capacity_

C20_CapacityMonotone ==
    \A w \in Names :
        CapacityLowered(w) =>
            \/ last.op = "Vector(&&)" /\ w = last.o
            \/ last.op = "operator=(&&)" /\ w \in {last.v, last.o}
            \/ last.op = "Swap" /\ w \in {last.v, last.o}

\* A Reserve below the capacity, or a copy assignment of fewer elements
\* than the capacity, has returned and the capacity is what it was.
C20_Witness ==
    /\ last.op # "none"
    /\ ~last.threw
    /\ last.pre.vec[last.v].capacity_ > 0
    /\ vec[last.v].capacity_ = last.pre.vec[last.v].capacity_
    /\ \/ last.op = "Reserve" /\ last.n < last.pre.vec[last.v].capacity_
       \/ /\ last.op = "operator=(const&)"
          /\ last.v # last.o
          /\ vec[last.o].size_ < last.pre.vec[last.v].capacity_

\* A move assignment has lowered the capacity of its target.
MoveAssignLowered ==
    /\ last.op = "operator=(&&)"
    /\ CapacityLowered(last.v)

====
